---- MODULE Spec2Model ----
(***************************************************************************)
(* Model of src/src/app.py: the start-up pipeline that turns the fetched   *)
(* records into the data frame `gdf` and the yearly table `bubble_data`,   *)
(* and the Dash callback update_visuals that derives a map layer and the   *)
(* bubble chart from a selected year.                                      *)
(*                                                                         *)
(* Numbers.  Densities are floats in the program.  The model keeps them as *)
(* exact fixed-point integers counted in hundredths (1.5 is 150); every    *)
(* raw input of the model has at most one fractional digit, so x * 0.3 is  *)
(* the exact integer (3 * x) \div 10.  A quotient (scaled_density) is kept *)
(* as an exact fraction, or as one of the IEEE specials NaN, +inf, -inf    *)
(* that float division by zero yields in pandas.                           *)
(***************************************************************************)
EXTENDS Integers, Sequences, FiniteSets, TLC

\* results     : the records the data service returns (client.get)
\* pc          : "start" before the module-level code ran, then "ready"
\*               (the server accepts selections) or "crashed"
\* err         : the exception that ended the start-up, if any
\* gdf         : the data frame built from the records
\* bubble_data : the yearly table (year, total_density, scaled_density)
\* out         : what the last invocation of update_visuals produced
VARIABLES results, pc, err, gdf, bubble_data, out

vars == <<results, pc, err, gdf, bubble_data, out>>

-----------------------------------------------------------------------------
(* Bounds of the model *)

\* largest number of records the data service returns
MaxRecords == 2

-----------------------------------------------------------------------------
(* Program constants *)

\* years = list(range(2001, 2023))
FirstYear == 2001
LastYear == 2022
years == [i \in 1..(LastYear - FirstYear + 1) |-> FirstYear + i - 1]

\* the factor of the bubble scaling: ... / max() * 20
SCALE_CONSTANT == 20

\* the table with the entry of 2004 copied from the line above it
year_col_map_dup ==
    (2001 :> "areacoca_2001") @@ (2002 :> "areacoca_2002") @@
    (2003 :> "areacoca_2003") @@ (2004 :> "areacoca_2003") @@
    (2005 :> "areacoca_2005") @@ (2006 :> "areacoca_2006") @@
    (2007 :> "areacoca_2007") @@ (2008 :> "areacoca_2008") @@
    (2009 :> "areacoca_2009") @@ (2010 :> "areacoca_2010") @@
    (2011 :> "areacoca_2011") @@ (2012 :> "areacoca_2012") @@
    (2013 :> "areacoca_2013") @@ (2014 :> "areacoca_2014") @@
    (2015 :> "areacoca_2015") @@ (2016 :> "areacoca_2016") @@
    (2017 :> "areacoca_2017") @@ (2018 :> "areacoca_2018") @@
    (2019 :> "areacoca_2019") @@ (2020 :> "areacoca_2020") @@
    (2021 :> "areacoca_2021") @@ (2022 :> "coca2022_")

\* year_col_map: the raw field of each year, written out entry by entry
year_col_map ==
    (2001 :> "areacoca_2001") @@ (2002 :> "areacoca_2002") @@
    (2003 :> "areacoca_2003") @@ (2004 :> "areacoca2004") @@
    (2005 :> "areacoca_2005") @@ (2006 :> "areacoca_2006") @@
    (2007 :> "areacoca_2007") @@ (2008 :> "areacoca_2008") @@
    (2009 :> "areacoca_2009") @@ (2010 :> "areacoca_2010") @@
    (2011 :> "areacoca_2011") @@ (2012 :> "areacoca_2012") @@
    (2013 :> "areacoca_2013") @@ (2014 :> "areacoca_2014") @@
    (2015 :> "areacoca_2015") @@ (2016 :> "areacoca_2016") @@
    (2017 :> "areacoca_2017") @@ (2018 :> "areacoca_2018") @@
    (2019 :> "areacoca_2019") @@ (2020 :> "areacoca_2020") @@
    (2021 :> "areacoca_2021") @@ (2022 :> "coca2022_")

-----------------------------------------------------------------------------
(* Values *)

\* a JSON number, in hundredths
Num(n) == [tag |-> "num", n |-> n]
\* a JSON string, as its sequence of characters
Text(s) == [tag |-> "text", s |-> s]
\* the float NaN: what pandas puts in a cell whose record lacks the field,
\* and what to_numeric(errors='coerce') makes of text that is no number
NaN == [tag |-> "nan"]
\* a field the record does not carry at all (used to build records only)
Absent == [tag |-> "absent"]

Digits == <<"0", "1", "2", "3", "4", "5", "6", "7", "8", "9">>
IsDigit(c) == \E i \in 1..10 : Digits[i] = c
DigitVal(c) == (CHOOSE i \in 1..10 : Digits[i] = c) - 1

RECURSIVE DigitsValue(_)
\* the value of a string of decimal digits
DigitsValue(s) ==
    IF s = <<>> THEN 0
    ELSE 10 * DigitsValue(SubSeq(s, 1, Len(s) - 1)) + DigitVal(s[Len(s)])

\* Decimal text -> number, as the float parser behind pd.to_numeric reads it:
\* an optional sign, digits with at most one ".", at least one digit.  The
\* result is a record [ok, n] with n in hundredths (digits after the second
\* fractional one are below the resolution of the model and never occur in
\* its inputs).
ParseFloat(s) ==
    LET signed == Len(s) > 0 /\ s[1] \in {"-", "+"}
        body   == IF signed THEN Tail(s) ELSE s
        dots   == {i \in 1..Len(body) : body[i] = "."}
        dot    == IF dots = {} THEN Len(body) + 1 ELSE CHOOSE i \in dots : TRUE
        ip     == SubSeq(body, 1, dot - 1)
        fp     == SubSeq(body, dot + 1, Len(body))
        valid  == /\ Cardinality(dots) <= 1
                  /\ \A i \in 1..Len(ip) : IsDigit(ip[i])
                  /\ \A i \in 1..Len(fp) : IsDigit(fp[i])
                  /\ Len(ip) + Len(fp) >= 1
        f1     == IF Len(fp) >= 1 THEN DigitVal(fp[1]) ELSE 0
        f2     == IF Len(fp) >= 2 THEN DigitVal(fp[2]) ELSE 0
        mag    == 100 * DigitsValue(ip) + 10 * f1 + f2
    IN  IF valid
        THEN [ok |-> TRUE, n |-> IF signed /\ s[1] = "-" THEN 0 - mag ELSE mag]
        ELSE [ok |-> FALSE, n |-> 0]

\* pd.to_numeric(..., errors='coerce') on one cell: a number stays, text is
\* parsed, and whatever is no number (missing, empty, other text) is NaN
to_numeric(cell) ==
    CASE cell.tag = "num"  -> cell
      [] cell.tag = "text" -> IF ParseFloat(cell.s).ok
                              THEN Num(ParseFloat(cell.s).n) ELSE NaN
      [] OTHER             -> NaN

\* Series.fillna(0) on one cell
fillna(cell) == IF cell.tag = "nan" THEN Num(0) ELSE cell

RECURSIVE SeriesSum(_)
\* Series.sum(): NaN cells are skipped, an empty or all-NaN series sums to 0
SeriesSum(col) ==
    IF col = <<>> THEN 0
    ELSE (IF Head(col).tag = "num" THEN Head(col).n ELSE 0) + SeriesSum(Tail(col))

\* the numbers of a series, NaN cells skipped
SeriesNumbers(col) == {col[i].n : i \in {j \in 1..Len(col) : col[j].tag = "num"}}

\* Series.max() and Series.min(): NaN when there is no number to compare
SeriesMax(col) ==
    IF SeriesNumbers(col) = {} THEN NaN
    ELSE Num(CHOOSE m \in SeriesNumbers(col) : \A n \in SeriesNumbers(col) : n <= m)

SeriesMin(col) ==
    IF SeriesNumbers(col) = {} THEN NaN
    ELSE Num(CHOOSE m \in SeriesNumbers(col) : \A n \in SeriesNumbers(col) : m <= n)

\* max_density * 0.7: the upper limit "reduced by 30%" instead of reduced to 30%
DampAsReduction(x) == IF x.tag = "num" THEN Num((7 * x.n) \div 10) ELSE NaN

\* max_density * 0.3 (NaN stays NaN)
Damp(x) == IF x.tag = "num" THEN Num((3 * x.n) \div 10) ELSE NaN

-----------------------------------------------------------------------------
(* Quotients: total_density / max * 20 *)

RECURSIVE GCD(_, _)
GCD(a, b) == IF b = 0 THEN a ELSE GCD(b, a % b)

Abs(a) == IF a < 0 THEN 0 - a ELSE a

\* the fraction n/d in lowest terms, d > 0
Frac(n, d) ==
    LET g == GCD(Abs(n), Abs(d))
        s == IF d < 0 THEN 0 - 1 ELSE 1
    IN  [tag |-> "num", n |-> (s * n) \div g, d |-> Abs(d) \div g]

QNaN == [tag |-> "nan", n |-> 0, d |-> 1]
PosInf == [tag |-> "inf", n |-> 1, d |-> 1]
NegInf == [tag |-> "inf", n |-> 0 - 1, d |-> 1]

\* total / m, the factor 20 forgotten
ScaledDensityUnscaled(total, m) ==
    IF m = 0
    THEN (IF total = 0 THEN QNaN ELSE IF total > 0 THEN PosInf ELSE NegInf)
    ELSE Frac(total, m)

\* total / m * 20 on floats: division by zero raises nothing in pandas, it
\* yields NaN for 0/0 and a signed infinity otherwise
ScaledDensity(total, m) ==
    IF m = 0
    THEN (IF total = 0 THEN QNaN ELSE IF total > 0 THEN PosInf ELSE NegInf)
    ELSE Frac(SCALE_CONSTANT * total, m)

-----------------------------------------------------------------------------
(* The data frame *)

\* pd.DataFrame.from_records(results): one column per field name that occurs
\* in some record, one row per record, NaN where a record lacks the field
from_records(recs) ==
    LET columns == UNION {DOMAIN recs[i] : i \in 1..Len(recs)}
    IN  [columns |-> columns,
         rows    |-> [i \in 1..Len(recs) |->
                        [c \in columns |->
                            IF c \in DOMAIN recs[i] THEN recs[i][c] ELSE NaN]]]

\* df[c] as a series
Column(df, c) == [i \in 1..Len(df.rows) |-> df.rows[i][c]]

\* shapely.geometry.shape(x) for a GeoJSON-like mapping
shape(x) == [tag |-> "shape", id |-> x.id]

\* df['geometry'] = df['the_geom'].apply(shape); gdf = GeoDataFrame(df, ...)
\* (the column labels of the model carry no surrounding blanks, so
\* columns.str.strip() leaves them as they are)
GeoDataFrame(df) ==
    LET columns == df.columns \cup {"geometry"}
    IN  [columns |-> columns,
         rows    |-> [i \in 1..Len(df.rows) |->
                        [c \in columns |->
                            IF c = "geometry" THEN shape(df.rows[i]["the_geom"])
                            ELSE df.rows[i][c]]]]

\* a sum over the cells that are numbers already, text left unparsed
NumericOnly(col) == [i \in 1..Len(col) |-> IF col[i].tag = "num" THEN col[i] ELSE NaN]

\* pd.to_numeric(series, errors='coerce')
pd_to_numeric(col) == [i \in 1..Len(col) |-> to_numeric(col[i])]

\* the yearly totals, one per entry of years, in the order of years
total_density(df) ==
    [i \in 1..Len(years) |->
        SeriesSum(pd_to_numeric(Column(df, year_col_map[years[i]])))]

\* bubble_data scaled by total_density.min() instead of .max()
BubbleDataMin(df) ==
    LET total == total_density(df)
        m     == CHOOSE t \in {total[i] : i \in 1..Len(years)} :
                    \A i \in 1..Len(years) : t <= total[i]
    IN  [i \in 1..Len(years) |->
            [year           |-> years[i],
             total_density  |-> total[i],
             scaled_density |-> ScaledDensity(total[i], m)]]

\* bubble_data after the module-level code: year, total_density and
\* scaled_density = total_density / total_density.max() * 20
BubbleData(df) ==
    LET total == total_density(df)
        m     == CHOOSE t \in {total[i] : i \in 1..Len(years)} :
                    \A i \in 1..Len(years) : total[i] <= t
    IN  [i \in 1..Len(years) |->
            [year           |-> years[i],
             total_density  |-> total[i],
             scaled_density |-> ScaledDensity(total[i], m)]]

\* The exception that ends the module-level code for these records, if any:
\* df['the_geom'] when no record has a geometry, then gdf[column_name] for
\* the first year whose field no record carries
NoError == [type |-> "none", key |-> ""]

StartupError(recs) ==
    LET df      == from_records(recs)
        missing == {i \in 1..Len(years) : year_col_map[years[i]] \notin df.columns}
        k       == CHOOSE i \in missing : \A j \in missing : i <= j
    IN  IF "the_geom" \notin df.columns
        THEN [type |-> "KeyError", key |-> "the_geom"]
        ELSE IF missing # {}
        THEN [type |-> "KeyError", key |-> year_col_map[years[k]]]
        ELSE NoError

-----------------------------------------------------------------------------
(* The callback *)

NoFigure == [tag |-> "none"]
NoOutput == [status |-> "none", year |-> 0, year_col |-> "",
             fig_map |-> NoFigure, fig_bubble |-> NoFigure]

\* year_col_map.get(selected_year, 'areacoca_2001'): a lookup that falls
\* back to a default field instead of raising
year_col_default(selected_year) ==
    IF selected_year \in DOMAIN year_col_map
    THEN [found |-> TRUE, col |-> year_col_map[selected_year]]
    ELSE [found |-> TRUE, col |-> "areacoca_2001"]

\* year_col_map[selected_year]: the field of the year, or KeyError
year_col_lookup(selected_year) ==
    IF selected_year \in DOMAIN year_col_map
    THEN [found |-> TRUE, col |-> year_col_map[selected_year]]
    ELSE [found |-> FALSE, col |-> ""]

\* The body of update_visuals, run on a data frame g and a yearly table b:
\* the two figures, or the KeyError of a year that year_col_map does not know
\* (or of a field that g does not have)
visuals(g, b, selected_year) ==
    LET lookup   == year_col_lookup(selected_year)
        year_col == lookup.col
    IN  IF ~lookup.found \/ year_col \notin g.columns
        THEN [status |-> "KeyError", year |-> selected_year, year_col |-> year_col,
              fig_map |-> NoFigure, fig_bubble |-> NoFigure]
        ELSE
        LET density      == [i \in 1..Len(g.rows) |->
                                fillna(to_numeric(g.rows[i][year_col]))]
            min_density  == SeriesMin(density)
            max_density  == SeriesMax(density)
            adjusted_min == min_density
            adjusted_max == Damp(max_density)
            scaled       == [i \in 1..Len(b) |-> b[i].scaled_density]
        IN  [status   |-> "ok",
             year     |-> selected_year,
             year_col |-> year_col,
             fig_map  |-> [geojson   |-> Column(g, "geometry"),
                           locations |-> [i \in 1..Len(g.rows) |-> i - 1],
                           z         |-> density,
                           zmin      |-> adjusted_min,
                           zmax      |-> adjusted_max],
             fig_bubble |-> [x     |-> [i \in 1..Len(b) |-> b[i].year],
                             y     |-> scaled,
                             size  |-> scaled,
                             color |-> scaled]]

\* update_visuals(selected_year): the callback reads the module-level gdf
\* and bubble_data
update_visuals(selected_year) == visuals(gdf, bubble_data, selected_year)

-----------------------------------------------------------------------------
(* Inputs *)

\* raw values of a density field: JSON numbers, numeric text, empty text,
\* other text, or no field at all
RawDensities ==
    {Num(0 - 100), Num(200), Text(<<"1", "0">>), Text(<<"1", ".", "5">>),
     Text(<<>>), Text(<<"a", "b", "c">>), Absent}

\* the value every record carries in all the other years
Background == {Absent, Text(<<"0">>), Num(0 - 100)}

\* the year whose value varies from record to record
VariedYears == {2004}

\* the years a selection event may carry
SelectableYears == (FirstYear - 1)..(LastYear + 1)

YearOf(f) == CHOOSE y \in DOMAIN year_col_map : year_col_map[y] = f

\* record number i: value v in year vy, value bg in every other year
RawRecord(i, vy, v, bg) ==
    LET val(y)  == IF y = vy THEN v ELSE bg
        present == {y \in DOMAIN year_col_map : val(y) # Absent}
        fields  == {"the_geom"} \cup {year_col_map[y] : y \in present}
    IN  [f \in fields |->
            IF f = "the_geom" THEN [tag |-> "geojson", id |-> i]
            ELSE val(YearOf(f))]

-----------------------------------------------------------------------------
(* The state machine *)

Init ==
    /\ \E vy \in VariedYears, bg \in Background, n \in 0..MaxRecords :
         \E choice \in [1..n -> RawDensities] :
            results = [i \in 1..n |-> RawRecord(i, vy, choice[i], bg)]
    /\ pc = "start"
    /\ err = NoError
    /\ gdf = [columns |-> {}, rows |-> <<>>]
    /\ bubble_data = <<>>
    /\ out = NoOutput

\* client.get raises: the error is printed and re-raised
FetchFails ==
    /\ pc = "start"
    /\ pc' = "crashed"
    /\ err' = [type |-> "FetchError", key |-> ""]
    /\ UNCHANGED <<results, gdf, bubble_data, out>>

\* the module-level code raises on the fetched records
StartupFails ==
    /\ pc = "start"
    /\ StartupError(results) # NoError
    /\ pc' = "crashed"
    /\ err' = StartupError(results)
    /\ UNCHANGED <<results, gdf, bubble_data, out>>

\* the module-level code runs to the end: gdf and bubble_data are built
Startup ==
    /\ pc = "start"
    /\ StartupError(results) = NoError
    /\ pc' = "ready"
    /\ gdf' = GeoDataFrame(from_records(results))
    /\ bubble_data' = BubbleData(GeoDataFrame(from_records(results)))
    /\ UNCHANGED <<results, err, out>>

\* the callback with gdf.rename(columns={year_col: 'density'}, inplace=True):
\* the column of the selected year is renamed in gdf itself
SelectRenameInPlace(selected_year) ==
    /\ pc = "ready"
    /\ out' = update_visuals(selected_year)
    /\ gdf' = IF update_visuals(selected_year).status = "ok"
              THEN LET col     == year_col_map[selected_year]
                       columns == (gdf.columns \ {col}) \cup {"density"}
                   IN  [columns |-> columns,
                        rows    |-> [i \in 1..Len(gdf.rows) |->
                                       [c \in columns |->
                                           IF c = "density" THEN gdf.rows[i][col]
                                           ELSE gdf.rows[i][c]]]]
              ELSE gdf
    /\ UNCHANGED <<results, pc, err, bubble_data>>

\* the callback without the copy: the coerced densities are written back
\* into the column of gdf
SelectCoerceInPlace(selected_year) ==
    /\ pc = "ready"
    /\ out' = update_visuals(selected_year)
    /\ gdf' = IF update_visuals(selected_year).status = "ok"
              THEN LET col == year_col_map[selected_year]
                   IN  [gdf EXCEPT !.rows =
                          [i \in 1..Len(gdf.rows) |->
                             [gdf.rows[i] EXCEPT ![col] = fillna(to_numeric(@))]]]
              ELSE gdf
    /\ UNCHANGED <<results, pc, err, bubble_data>>

\* one selection event: the callback runs on a copy of the two columns it
\* needs and returns its figures
Select(selected_year) ==
    /\ pc = "ready"
    /\ out' = update_visuals(selected_year)
    /\ UNCHANGED <<results, pc, err, gdf, bubble_data>>

Next ==
    \/ FetchFails
    \/ StartupFails
    \/ Startup
    \/ \E y \in SelectableYears : Select(y)

Spec == Init /\ [][Next]_vars

-----------------------------------------------------------------------------
(* Vocabulary of the properties *)

Ready == pc = "ready"
\* the data frame the start-up builds from the fetched records
StartupFrame == GeoDataFrame(from_records(results))
Years == FirstYear..LastYear
Rows == 1..Len(bubble_data)
Total(i) == bubble_data[i].total_density
Scaled(i) == bubble_data[i].scaled_density
Twenty == [tag |-> "num", n |-> SCALE_CONSTANT, d |-> 1]

\* the largest yearly total
MaxTotal == CHOOSE t \in {Total(i) : i \in Rows} : \A i \in Rows : Total(i) <= t

\* a quotient is a finite number / is finite and not negative / is at most 20
Finite(q) == q.tag = "num"
NonNegative(q) == q.tag = "num" /\ q.n >= 0
AtMostTwenty(q) == q.tag = "num" /\ q.n <= SCALE_CONSTANT * q.d

\* the densities of the layer the last callback returned
LayerZ == {out.fig_map.z[i].n : i \in 1..Len(out.fig_map.z)}
LayerOfNonNegatives ==
    /\ out.status = "ok"
    /\ Len(out.fig_map.z) > 0
    /\ \A n \in LayerZ : n >= 0

\* the raw value record i carries for year y, Absent when it has no such field
RawValue(i, y) ==
    IF year_col_map[y] \in DOMAIN results[i] THEN results[i][year_col_map[y]]
    ELSE Absent

\* what coercion is to make of each raw value of the model, written out
\* value by value, in hundredths
ExpectedDensity(raw) ==
    CASE raw = Num(0 - 100)               -> 0 - 100
      [] raw = Num(200)                   -> 200
      [] raw = Text(<<"1", "0">>)         -> 1000
      [] raw = Text(<<"1", ".", "5">>)    -> 150
      [] raw = Text(<<"0">>)              -> 0
      [] raw = Text(<<>>)                 -> 0
      [] raw = Text(<<"a", "b", "c">>)    -> 0
      [] raw = Absent                     -> 0

RECURSIVE SumTo(_, _)
\* f[1] + ... + f[n]
SumTo(f, n) == IF n = 0 THEN 0 ELSE SumTo(f, n - 1) + f[n]

-----------------------------------------------------------------------------
(* C1 *)

\* C1: density coercion never fails.  No raw density value (a number, numeric
\* text, empty text, other text, or a field that is absent) makes the start-up
\* aggregation or the construction of a layer abort, and every density of a
\* returned layer is 0 for an absent, empty or unparseable raw value and the
\* parsed number otherwise.
C1_CoercionNeverAborts ==
    /\ ~(pc = "crashed" /\ err.type = "KeyError"
            /\ \E y \in Years : err.key = year_col_map[y])
    /\ (Ready /\ out.year \in Years) => out.status = "ok"
    /\ out.status = "ok" =>
          \A i \in 1..Len(results) :
             out.fig_map.z[i] = Num(ExpectedDensity(RawValue(i, out.year)))

-----------------------------------------------------------------------------
(* C2 *)

\* C2 as stated: for a layer over a non-empty record set whose densities of
\* the year are all non-negative, dampedMax is 0.3 times the maximum density
\* and min <= dampedMax.
C2_Original ==
    LayerOfNonNegatives =>
        /\ \A n \in LayerZ : 10 * out.fig_map.zmax.n >= 3 * n
        /\ \E n \in LayerZ : 10 * out.fig_map.zmax.n = 3 * n
        /\ out.fig_map.zmin.n \in LayerZ
        /\ \A n \in LayerZ : out.fig_map.zmin.n <= n
        /\ out.fig_map.zmin.n <= out.fig_map.zmax.n

\* C2 amended: for such a layer dampedMax is 0.3 times the maximum density,
\* min is the minimum density, dampedMax never exceeds the maximum, and
\* min <= dampedMax holds exactly when min <= 0.3 * max, in particular
\* whenever the minimum density is 0.
C2_ColorDomain ==
    LayerOfNonNegatives =>
        /\ \A n \in LayerZ : 10 * out.fig_map.zmax.n >= 3 * n
        /\ \E n \in LayerZ : 10 * out.fig_map.zmax.n = 3 * n
        /\ out.fig_map.zmin.n \in LayerZ
        /\ \A n \in LayerZ : out.fig_map.zmin.n <= n
        /\ \E n \in LayerZ : out.fig_map.zmax.n <= n
        /\ (out.fig_map.zmin.n <= out.fig_map.zmax.n)
              <=> (\E n \in LayerZ : 10 * out.fig_map.zmin.n <= 3 * n)
        /\ out.fig_map.zmin.n = 0 => out.fig_map.zmin.n <= out.fig_map.zmax.n

\* a layer of two records with densities 10 and 0: color domain (0, 3)
C2_Witness ==
    /\ LayerOfNonNegatives
    /\ LayerZ = {0, 1000}
    /\ out.fig_map.zmin = Num(0)
    /\ out.fig_map.zmax = Num(300)

-----------------------------------------------------------------------------
(* C3 *)

\* C3 as stated: whenever some yearly total is nonzero, the largest
\* scaledSize of the 22 points is 20 and every scaledSize is >= 0, negative
\* raw densities included.  (Taken here only where the largest total is not
\* zero, so that no division by zero takes part in the refutation.)
C3_Original ==
    (Ready /\ MaxTotal # 0 /\ \E i \in Rows : Total(i) # 0) =>
        /\ \E i \in Rows : Scaled(i) = Twenty
        /\ \A i \in Rows : AtMostTwenty(Scaled(i))
        /\ \A i \in Rows : NonNegative(Scaled(i))

\* C3 amended: whenever the largest yearly total is positive, the largest
\* scaledSize of the 22 points is 20, and the scaledSize of a year is >= 0
\* exactly when the total of that year is >= 0.
C3_Scaling ==
    (Ready /\ MaxTotal > 0) =>
        /\ \E i \in Rows : Scaled(i) = Twenty
        /\ \A i \in Rows : AtMostTwenty(Scaled(i))
        /\ \A i \in Rows : NonNegative(Scaled(i)) <=> Total(i) >= 0

\* a positive largest total next to a negative one
C3_Witness ==
    /\ Ready
    /\ MaxTotal > 0
    /\ \E i \in Rows : Total(i) < 0 /\ Scaled(i).n < 0
    /\ \E i \in Rows : Scaled(i) = Twenty

-----------------------------------------------------------------------------
(* C4 *)

\* C4: when every record has density 0 in every year, every scaledSize is a
\* defined, finite number.
C4_ZeroTotalsDefined ==
    (/\ Ready
     /\ \A i \in 1..Len(results), y \in Years :
           ExpectedDensity(RawValue(i, y)) = 0) =>
        \A i \in Rows : Finite(Scaled(i))

-----------------------------------------------------------------------------
(* C9 *)

\* C9: the yearly totals have one entry per year 2001..2022 in ascending
\* order, and the total of each year equals the sum over all records of the
\* density the layer of that year shows (missing and unparseable values
\* counting as 0).
C9_TotalsMatchLayers ==
    Ready =>
        /\ Len(bubble_data) = LastYear - FirstYear + 1
        /\ \A i \in Rows : bubble_data[i].year = FirstYear + i - 1
        /\ \A i \in Rows :
              LET layer == update_visuals(bubble_data[i].year)
              IN  /\ layer.status = "ok"
                  /\ Total(i) = SumTo([k \in 1..Len(layer.fig_map.z) |->
                                          layer.fig_map.z[k].n],
                                      Len(layer.fig_map.z))

\* numeric text, a missing value and a number in the same total
C9_Witness ==
    /\ Ready
    /\ out.status = "ok"
    /\ out.year = 2004
    /\ Len(results) = 2
    /\ RawValue(1, 2004) = Text(<<"1", ".", "5">>)
    /\ RawValue(2, 2004) = Absent
    /\ Total(4) = 150
    /\ Total(1) = 0 - 200

-----------------------------------------------------------------------------
(* C10 *)

\* C10 as stated: unless all yearly totals are zero, exactly one of the 22
\* points has scaledSize 20, the year of the largest total.  (Taken here
\* only where the largest total is not zero, so that no division by zero
\* takes part in the refutation.)
C10_Original ==
    (Ready /\ MaxTotal # 0 /\ \E i \in Rows : Total(i) # 0) =>
        /\ Cardinality({i \in Rows : Scaled(i) = Twenty}) = 1
        /\ \A i \in Rows : Scaled(i) = Twenty => Total(i) = MaxTotal

\* C10 amended: whenever the largest yearly total is not zero, the points
\* with scaledSize 20 are exactly the years whose total is the largest
\* total: at least one, and several when years tie for it.
C10_MaximumPoints ==
    (Ready /\ MaxTotal # 0) =>
        /\ {i \in Rows : Scaled(i) = Twenty} = {i \in Rows : Total(i) = MaxTotal}
        /\ \E i \in Rows : Scaled(i) = Twenty

\* 2004 alone holds the largest total
C10_Witness ==
    /\ Ready
    /\ MaxTotal > 0
    /\ {i \in Rows : Scaled(i) = Twenty} = {4}
    /\ \E i \in Rows : Total(i) < MaxTotal

-----------------------------------------------------------------------------
(* C5 *)

\* C5: a selection of year y returns the same pair of figures whenever it is
\* made on the same data set.  Whatever selections came before it, a callback
\* for a year of 2001..2022 returns exactly what the first callback after
\* start-up returns for that year, and a selection that repeats the year of
\* the one before it returns the very same output.
C5_Idempotent ==
    /\ [](out.year \in Years =>
            out = visuals(StartupFrame, BubbleData(StartupFrame), out.year))
    /\ [][(out.status = "ok" /\ out'.year = out.year) => out' = out]_vars

\* the figures of a year have been returned on a data set of two records
C5_Witness ==
    /\ Ready
    /\ Len(gdf.rows) = 2
    /\ out.status = "ok"
    /\ out.year = 2004
    /\ out = update_visuals(2004)
    /\ out.fig_map.z = <<Num(1000), Num(0)>>

-----------------------------------------------------------------------------
(* C6 *)

\* C6: after start-up no selection modifies the data set or the yearly
\* table: gdf and bubble_data keep the values the start-up gave them, and the
\* time series of every returned bubble chart is that of the table, whatever
\* year was selected.
C6_ReadOnlyAfterStartup ==
    Ready =>
        /\ gdf = StartupFrame
        /\ bubble_data = BubbleData(StartupFrame)
        /\ out.status = "ok" =>
              /\ out.fig_bubble.x = [i \in Rows |-> FirstYear + i - 1]
              /\ out.fig_bubble.y = [i \in Rows |-> Scaled(i)]
              /\ out.fig_bubble.size = out.fig_bubble.y
              /\ out.fig_bubble.color = out.fig_bubble.y

\* the bubble chart returned for 2022 on a data set whose 2004 total is the
\* largest
C6_Witness ==
    /\ Ready
    /\ out.status = "ok"
    /\ out.year = LastYear
    /\ out.fig_bubble.y[4] = Twenty
    /\ out.fig_bubble.y[1] # Twenty
    /\ \E i \in 1..Len(gdf.rows) : gdf.rows[i]["areacoca2004"].tag = "text"

-----------------------------------------------------------------------------
(* C7 *)

\* C7: a year outside 2001..2022 is rejected.  year_col_map has no entry for
\* it (none for 2000 and 2023 in particular), the callback ends with the
\* KeyError of the lookup and returns no figure, and the data set and the
\* yearly table stay as the start-up left them.
C7_UnknownYearRejected ==
    /\ (FirstYear - 1) \notin DOMAIN year_col_map
    /\ (LastYear + 1) \notin DOMAIN year_col_map
    /\ (out.status # "none" /\ out.year \notin Years) =>
          /\ out.status = "KeyError"
          /\ out.fig_map = NoFigure
          /\ out.fig_bubble = NoFigure
          /\ gdf = StartupFrame
          /\ bubble_data = BubbleData(StartupFrame)

\* the callback has rejected 2023 on a loaded data set
C7_Witness ==
    /\ Ready
    /\ Len(gdf.rows) > 0
    /\ out.year = LastYear + 1
    /\ out.status = "KeyError"

-----------------------------------------------------------------------------
(* C8 *)

\* C8: year_col_map is total and injective on 2001..2022: it has an entry
\* for each of these years and for no other, every field name is non-empty,
\* the 22 names are pairwise distinct, and the field a callback reads for a
\* year is the entry of that year.
C8_FieldMapInjective ==
    /\ DOMAIN year_col_map = Years
    /\ \A y \in Years : year_col_map[y] # ""
    /\ \A y \in Years, z \in Years : year_col_map[y] = year_col_map[z] => y = z
    /\ Cardinality({year_col_map[y] : y \in Years}) = LastYear - FirstYear + 1
    /\ out.status = "ok" => out.year_col = year_col_map[out.year] /\ out.year_col # ""

\* the callback has read the irregular field of 2022
C8_Witness ==
    /\ out.status = "ok"
    /\ out.year = 2022
    /\ out.year_col = "coca2022_"
    /\ year_col_lookup(2004).col = "areacoca2004"

====
